---- MODULE Spec2Model ----
(***************************************************************************)
(* A model of the two containers of the repository:                        *)
(*   Multiq  (src/src/multiq.rs)  - two-lock FIFO queue with a condvar      *)
(*   Stackus (src/src/stackus.rs) - lock-free stack with deferred reclaim   *)
(* Each container has its own variables, actions and specifications; the   *)
(* variables of the container a specification does not exercise keep their *)
(* initial values.                                                         *)
(***************************************************************************)
EXTENDS Integers, Sequences, FiniteSets, TLC

(***************************************************************************)
(* Bounds of the model.                                                    *)
(***************************************************************************)
\* number of threads sharing one Multiq
QThreads == 3
\* pushes the driver makes on one Multiq, all threads together
MaxPush == 2
\* element values are 1..MaxVal
MaxVal == 2
\* threads that call all four queue operations in QSpec (at most QThreads)
WThreads == 2

\* number of threads sharing one Stackus
SThreads == 3
\* pushes one stack thread makes
SPushEach == 2
\* most nodes in the live list when concurrent draining starts
MaxInit == 3
\* threads that drain the stack concurrently in SDrainSpec (at most SThreads)
DThreads == 2
\* threads that call push and pop concurrently in SMixSpec (at most SThreads)
MThreads == 2
\* calls (push or pop) the busiest of them makes
MixOps == 4
\* nodes in the live list when they start
MixInit == 2

\* Option::None for an element (element values are positive)
None == 0
\* ptr::null_mut()
NULL == 0

QThreadSet == 1..QThreads
Values == 1..MaxVal
SThreadSet == 1..SThreads
\* addresses the allocator hands out: enough for every node alive at once
Addrs == 1..(MaxInit + SThreads * SPushEach)

VARIABLES
    qhead,      \* InnerMultiq.head : the Data chain behind the head mutex, as a sequence
    qtail,      \* InnerMultiq.tail : the Data chain behind the tail mutex, as a sequence
    headLock,   \* owner of the head mutex, 0 when free
    tailLock,   \* owner of the tail mutex, 0 when free
    cvWaiters,  \* threads parked in InnerMultiq.cvar
    qpc,        \* per thread: position inside the queue operation it runs
    qval,       \* per thread: the local `value` (pop, wait_and_pop), the argument (push)
    qempty,     \* per thread: the boolean is_empty computed
    qrole,      \* per thread: which operations the driver lets it call
    qleft,      \* pushes the driver still has to make
    qinserted,  \* history: values in the order they were linked into the queue
    qreturned,  \* history: values in the order pop / wait_and_pop returned them
    qdrain,     \* per thread: "clean" pop called after all producers finished, "empty" it returned None
    wstart      \* per thread: Len(qinserted) when its wait_and_pop began to wait, -1 otherwise

qvars == <<qhead, qtail, headLock, tailLock, cvWaiters, qpc, qval, qempty,
           qrole, qleft, qinserted, qreturned, qdrain, wstart>>

VARIABLES
    head,             \* Stackus.head : AtomicPtr, an address or NULL
    threads_in_pop,   \* Stackus.threads_in_pop : AtomicUsize
    list_to_delete,   \* Stackus.list_to_delete : AtomicPtr
    mem,              \* heap: address -> Nodus [value, next]
    heap,             \* heap: address -> "fresh" (never handed out), "live", "freed"
    crashed,          \* the process was killed (null dereference, allocator abort)
    ub,               \* undefined behaviour that has occurred, by kind
    spc,              \* per thread: position inside the stack operation it runs
    new_node,         \* per thread: push's `ptr` / `heap_ref`
    old_head,         \* per thread: pop's `old_head`
    next_read,        \* per thread: pop's `old_head.read().next` handed to the CAS
    sval,             \* per thread: the value pop read out of the unlinked node
    nodes_to_delete,  \* per thread: try_reclaim's claimed list
    chain_list,       \* per thread: chain_pending_nodes' `list`
    chain_from,       \* per thread: which call of chain_pending_nodes is running
    chain_loaded,     \* per thread: what chain_pending_nodes' list_to_delete.load() returned
    srole,            \* per thread: what the driver lets it do
    sleft,            \* per thread: pushes it still has to make
    sinserted,        \* history: the seed and every value handed to push
    spopped,          \* history: values in the order pop returned them
    sref              \* the reference LIFO of the sequential driver

svars == <<head, threads_in_pop, list_to_delete, mem, heap, crashed, ub, spc,
           new_node, old_head, next_read, sval, nodes_to_delete, chain_list,
           chain_from, chain_loaded, srole, sleft, sinserted, spopped, sref>>

vars == <<qvars, svars>>

(***************************************************************************)
(* Data<T>.contents : (Option<T>, Option<Box<Data<T>>>) is a chain of      *)
(* values; (None, None) is the empty sequence.                             *)
(***************************************************************************)
\* Data { contents: (None, None) }
EmptyData == <<>>
\* Data::new(value)
DataNew(v) == <<v>>
\* contents.0.is_some()
HasValue(d) == Len(d) > 0
\* contents.1.is_some()
HasNext(d) == Len(d) > 1
\* contents.0.clone(), as Option<T>
Value0(d) == IF HasValue(d) THEN d[1] ELSE None
\* contents.1.clone().unwrap().contents
NextContents(d) == Tail(d)

(***************************************************************************)
(* The updates pop, wait_and_pop, push and is_empty make under the locks.  *)
(***************************************************************************)
\* bug: the tail's contents are dropped instead of loaded into head
FillFromTail_Bug(tl) == EmptyData

\* pop, wait_and_pop: head has one element, "try to add contents to head from tail"
FillFromTail(tl) == IF ~HasValue(tl) THEN EmptyData ELSE tl

\* pop, wait_and_pop: head empty and tail has a value, "update head if possible"
HeadAfterTake(h, tl) == IF HasNext(tl) THEN NextContents(tl) ELSE h

\* bug: the new node replaces the tail chain instead of being linked at its end
PushTail_Bug(tl, v) == DataNew(v)

\* push: the tail chain after linking value
PushTail(tl, v) == IF ~HasValue(tl) THEN DataNew(v) ELSE Append(tl, v)

\* push: whether the tail guard is dropped before notify_one
PushDropsEarly(tl) == ~HasValue(tl)

\* bug: the predicate is not re-checked after cvar.wait returns
MustWait_Bug(tl) == FALSE

\* wait_and_pop: the loop condition around cvar.wait
MustWait(tl) == ~HasValue(tl)

\* bug: only the head region is looked at
IsEmptyResult_Bug(h, tl) == ~HasValue(h) /\ ~HasNext(h)

\* is_empty: the returned expression
IsEmptyResult(h, tl) == ~HasValue(tl) /\ ~HasNext(tl) /\ ~HasValue(h) /\ ~HasNext(h)

(***************************************************************************)
(* Driver: which thread may call what.                                     *)
(***************************************************************************)
Producers == {t \in QThreadSet : qrole[t] = "producer"}
ProducersDone == qleft = 0 /\ \A t \in Producers : qpc[t] = "idle"

CanPush(t) == qrole[t] \in {"producer", "seq", "any"} /\ qleft > 0
CanPop(t) == qrole[t] \in {"consumer", "seq", "any"}
CanWait(t) == qrole[t] = "any"
CanIsEmpty(t) == qrole[t] = "any"

\* Multiq::new(seed), roles and push budgets given
QInitWith(seed, roles, left) ==
    /\ qhead = DataNew(seed)
    /\ qtail = EmptyData
    /\ headLock = 0
    /\ tailLock = 0
    /\ cvWaiters = {}
    /\ qpc = [t \in QThreadSet |-> "idle"]
    /\ qval = [t \in QThreadSet |-> None]
    /\ qempty = [t \in QThreadSet |-> FALSE]
    /\ qrole = roles
    /\ qleft = left
    /\ qinserted = <<seed>>
    /\ qreturned = <<>>
    /\ qdrain = [t \in QThreadSet |-> "no"]
    /\ wstart = [t \in QThreadSet |-> -1]

(***************************************************************************)
(* push                                                                    *)
(***************************************************************************)
CallPush(t) ==
    /\ qpc[t] = "idle"
    /\ CanPush(t)
    /\ \E v \in Values : qval' = [qval EXCEPT ![t] = v]
    /\ qleft' = qleft - 1
    /\ qpc' = [qpc EXCEPT ![t] = "push_lock"]
    /\ UNCHANGED <<qhead, qtail, headLock, tailLock, cvWaiters, qempty, qrole,
                   qinserted, qreturned, qdrain, wstart>>
    /\ UNCHANGED svars

\* self.queue.tail.lock()
PushLock(t) ==
    /\ qpc[t] = "push_lock"
    /\ tailLock = 0
    /\ tailLock' = t
    /\ qpc' = [qpc EXCEPT ![t] = "push_body"]
    /\ UNCHANGED <<qhead, qtail, headLock, cvWaiters, qval, qempty, qrole, qleft,
                   qinserted, qreturned, qdrain, wstart>>
    /\ UNCHANGED svars

\* link the value; the guard is dropped here only when the tail was empty
PushBody(t) ==
    /\ qpc[t] = "push_body"
    /\ qtail' = PushTail(qtail, qval[t])
    /\ tailLock' = IF PushDropsEarly(qtail) THEN 0 ELSE t
    /\ qinserted' = Append(qinserted, qval[t])
    /\ qpc' = [qpc EXCEPT ![t] = "push_notify"]
    /\ UNCHANGED <<qhead, headLock, cvWaiters, qval, qempty, qrole, qleft,
                   qreturned, qdrain, wstart>>
    /\ UNCHANGED svars

\* cvar.notify_one(), then the guard (if still held) goes out of scope
PushNotify(t) ==
    /\ qpc[t] = "push_notify"
    /\ IF cvWaiters = {}
       THEN /\ cvWaiters' = cvWaiters
            /\ qpc' = [qpc EXCEPT ![t] = "idle"]
       ELSE \E w \in cvWaiters :
                /\ cvWaiters' = cvWaiters \ {w}
                /\ qpc' = [qpc EXCEPT ![t] = "idle", ![w] = "w_reacquire"]
    /\ tailLock' = IF tailLock = t THEN 0 ELSE tailLock
    /\ qval' = [qval EXCEPT ![t] = None]
    /\ UNCHANGED <<qhead, qtail, headLock, qempty, qrole, qleft,
                   qinserted, qreturned, qdrain, wstart>>
    /\ UNCHANGED svars

(***************************************************************************)
(* pop                                                                     *)
(***************************************************************************)
CallPop(t) ==
    /\ qpc[t] = "idle"
    /\ CanPop(t)
    /\ qpc' = [qpc EXCEPT ![t] = "pop_lock_head"]
    /\ qval' = [qval EXCEPT ![t] = None]
    /\ qdrain' = [qdrain EXCEPT ![t] = IF qrole[t] = "consumer" /\ ProducersDone
                                        THEN "clean" ELSE "no"]
    /\ UNCHANGED <<qhead, qtail, headLock, tailLock, cvWaiters, qempty, qrole, qleft,
                   qinserted, qreturned, wstart>>
    /\ UNCHANGED svars

\* self.queue.head.lock()
PopLockHead(t) ==
    /\ qpc[t] = "pop_lock_head"
    /\ headLock = 0
    /\ headLock' = t
    /\ qpc' = [qpc EXCEPT ![t] = "pop_head"]
    /\ UNCHANGED <<qhead, qtail, tailLock, cvWaiters, qval, qempty, qrole, qleft,
                   qinserted, qreturned, qdrain, wstart>>
    /\ UNCHANGED svars

\* under the head lock: take head.0, shift head, or go for the tail lock
PopHead(t) ==
    /\ qpc[t] = "pop_head"
    /\ IF HasValue(qhead)
       THEN /\ qval' = [qval EXCEPT ![t] = Value0(qhead)]
            /\ IF HasNext(qhead)
               THEN /\ qhead' = NextContents(qhead)
                    /\ qpc' = [qpc EXCEPT ![t] = "pop_unlock"]
               ELSE /\ qhead' = qhead
                    /\ qpc' = [qpc EXCEPT ![t] = "pop_lock_fill"]
       ELSE /\ qval' = qval
            /\ qhead' = qhead
            /\ qpc' = [qpc EXCEPT ![t] = "pop_lock_take"]
    /\ UNCHANGED <<qtail, headLock, tailLock, cvWaiters, qempty, qrole, qleft,
                   qinserted, qreturned, qdrain, wstart>>
    /\ UNCHANGED svars

\* self.queue.tail.lock(), the head lock held
PopLockTail(t) ==
    /\ qpc[t] \in {"pop_lock_fill", "pop_lock_take"}
    /\ tailLock = 0
    /\ tailLock' = t
    /\ qpc' = [qpc EXCEPT ![t] = IF qpc[t] = "pop_lock_fill" THEN "pop_fill" ELSE "pop_take"]
    /\ UNCHANGED <<qhead, qtail, headLock, cvWaiters, qval, qempty, qrole, qleft,
                   qinserted, qreturned, qdrain, wstart>>
    /\ UNCHANGED svars

\* head had one element: load head from tail, clear tail, drop the tail guard
PopFill(t) ==
    /\ qpc[t] = "pop_fill"
    /\ qhead' = FillFromTail(qtail)
    /\ qtail' = EmptyData
    /\ tailLock' = 0
    /\ qpc' = [qpc EXCEPT ![t] = "pop_unlock"]
    /\ UNCHANGED <<headLock, cvWaiters, qval, qempty, qrole, qleft,
                   qinserted, qreturned, qdrain, wstart>>
    /\ UNCHANGED svars

\* head was empty: pop from tail if it has a value, drop the tail guard
PopTake(t) ==
    /\ qpc[t] = "pop_take"
    /\ IF HasValue(qtail)
       THEN /\ qval' = [qval EXCEPT ![t] = Value0(qtail)]
            /\ qhead' = HeadAfterTake(qhead, qtail)
            /\ qtail' = EmptyData
       ELSE UNCHANGED <<qval, qhead, qtail>>
    /\ tailLock' = 0
    /\ qpc' = [qpc EXCEPT ![t] = "pop_unlock"]
    /\ UNCHANGED <<headLock, cvWaiters, qempty, qrole, qleft,
                   qinserted, qreturned, qdrain, wstart>>
    /\ UNCHANGED svars

\* the head guard goes out of scope; value is returned
PopUnlock(t) ==
    /\ qpc[t] = "pop_unlock"
    /\ headLock' = 0
    /\ qreturned' = IF qval[t] # None THEN Append(qreturned, qval[t]) ELSE qreturned
    /\ qdrain' = [qdrain EXCEPT ![t] = IF @ = "clean" /\ qval[t] = None THEN "empty" ELSE "no"]
    /\ qval' = [qval EXCEPT ![t] = None]
    /\ qpc' = [qpc EXCEPT ![t] = "idle"]
    /\ UNCHANGED <<qhead, qtail, tailLock, cvWaiters, qempty, qrole, qleft,
                   qinserted, wstart>>
    /\ UNCHANGED svars

QPushStep(t) == CallPush(t) \/ PushLock(t) \/ PushBody(t) \/ PushNotify(t)
QPopStep(t) == CallPop(t) \/ PopLockHead(t) \/ PopHead(t) \/ PopLockTail(t)
               \/ PopFill(t) \/ PopTake(t) \/ PopUnlock(t)

(***************************************************************************)
(* wait_and_pop                                                            *)
(***************************************************************************)
CallWait(t) ==
    /\ qpc[t] = "idle"
    /\ CanWait(t)
    /\ qpc' = [qpc EXCEPT ![t] = "w_lock_head"]
    /\ UNCHANGED <<qhead, qtail, headLock, tailLock, cvWaiters, qval, qempty, qrole,
                   qleft, qinserted, qreturned, qdrain, wstart>>
    /\ UNCHANGED svars

\* self.queue.head.lock()
WaitLockHead(t) ==
    /\ qpc[t] = "w_lock_head"
    /\ headLock = 0
    /\ headLock' = t
    /\ qpc' = [qpc EXCEPT ![t] = "w_head"]
    /\ UNCHANGED <<qhead, qtail, tailLock, cvWaiters, qval, qempty, qrole, qleft,
                   qinserted, qreturned, qdrain, wstart>>
    /\ UNCHANGED svars

\* under the head lock: take head.0, shift head, or go for the tail lock
WaitHead(t) ==
    /\ qpc[t] = "w_head"
    /\ IF HasValue(qhead)
       THEN /\ qval' = [qval EXCEPT ![t] = Value0(qhead)]
            /\ IF HasNext(qhead)
               THEN /\ qhead' = NextContents(qhead)
                    /\ qpc' = [qpc EXCEPT ![t] = "w_unlock"]
               ELSE /\ qhead' = qhead
                    /\ qpc' = [qpc EXCEPT ![t] = "w_lock_fill"]
       ELSE /\ qval' = qval
            /\ qhead' = qhead
            /\ qpc' = [qpc EXCEPT ![t] = "w_lock_take"]
    /\ UNCHANGED <<qtail, headLock, tailLock, cvWaiters, qempty, qrole, qleft,
                   qinserted, qreturned, qdrain, wstart>>
    /\ UNCHANGED svars

\* self.queue.tail.lock(), the head lock held
WaitLockTail(t) ==
    /\ qpc[t] \in {"w_lock_fill", "w_lock_take"}
    /\ tailLock = 0
    /\ tailLock' = t
    /\ qpc' = [qpc EXCEPT ![t] = IF qpc[t] = "w_lock_fill" THEN "w_fill" ELSE "w_take"]
    /\ UNCHANGED <<qhead, qtail, headLock, cvWaiters, qval, qempty, qrole, qleft,
                   qinserted, qreturned, qdrain, wstart>>
    /\ UNCHANGED svars

\* head had one element: load head from tail, clear tail, drop the tail guard
WaitFill(t) ==
    /\ qpc[t] = "w_fill"
    /\ qhead' = FillFromTail(qtail)
    /\ qtail' = EmptyData
    /\ tailLock' = 0
    /\ qpc' = [qpc EXCEPT ![t] = "w_unlock"]
    /\ UNCHANGED <<headLock, cvWaiters, qval, qempty, qrole, qleft,
                   qinserted, qreturned, qdrain, wstart>>
    /\ UNCHANGED svars

\* the tail chain wait_and_pop leaves behind after the cvar.wait loop:
\* "remove contents of tail" with no update of head
TailAfterWait(tl) == EmptyData

\* head was empty: pop from tail if it has a value, else cvar.wait(tail_lock),
\* which releases the tail mutex and parks the thread (the head guard stays held)
WaitTake(t) ==
    /\ qpc[t] = "w_take"
    /\ IF HasValue(qtail)
       THEN /\ qval' = [qval EXCEPT ![t] = Value0(qtail)]
            /\ qhead' = HeadAfterTake(qhead, qtail)
            /\ qtail' = EmptyData
            /\ qpc' = [qpc EXCEPT ![t] = "w_unlock"]
            /\ UNCHANGED <<cvWaiters, wstart>>
       ELSE /\ cvWaiters' = cvWaiters \cup {t}
            /\ wstart' = [wstart EXCEPT ![t] = Len(qinserted)]
            /\ qpc' = [qpc EXCEPT ![t] = "w_wait"]
            /\ UNCHANGED <<qval, qhead, qtail>>
    /\ tailLock' = 0
    /\ UNCHANGED <<headLock, qempty, qrole, qleft, qinserted, qreturned, qdrain>>
    /\ UNCHANGED svars

\* Condvar::wait may return with no notification
WaitSpurious(t) ==
    /\ qpc[t] = "w_wait"
    /\ t \in cvWaiters
    /\ cvWaiters' = cvWaiters \ {t}
    /\ qpc' = [qpc EXCEPT ![t] = "w_reacquire"]
    /\ UNCHANGED <<qhead, qtail, headLock, tailLock, qval, qempty, qrole, qleft,
                   qinserted, qreturned, qdrain, wstart>>
    /\ UNCHANGED svars

\* cvar.wait re-locks the tail mutex before it returns
WaitReacquire(t) ==
    /\ qpc[t] = "w_reacquire"
    /\ tailLock = 0
    /\ tailLock' = t
    /\ qpc' = [qpc EXCEPT ![t] = "w_check"]
    /\ UNCHANGED <<qhead, qtail, headLock, cvWaiters, qval, qempty, qrole, qleft,
                   qinserted, qreturned, qdrain, wstart>>
    /\ UNCHANGED svars

\* the while loop around cvar.wait, then value = tail.0 and the tail is cleared
WaitCheck(t) ==
    /\ qpc[t] = "w_check"
    /\ IF MustWait(qtail)
       THEN /\ cvWaiters' = cvWaiters \cup {t}
            /\ qpc' = [qpc EXCEPT ![t] = "w_wait"]
            /\ UNCHANGED <<qval, qtail>>
       ELSE /\ qval' = [qval EXCEPT ![t] = Value0(qtail)]
            /\ qtail' = TailAfterWait(qtail)
            /\ qpc' = [qpc EXCEPT ![t] = "w_unlock"]
            /\ UNCHANGED cvWaiters
    /\ tailLock' = 0
    /\ UNCHANGED <<qhead, headLock, qempty, qrole, qleft, qinserted, qreturned,
                   qdrain, wstart>>
    /\ UNCHANGED svars

\* value.unwrap() and the head guard goes out of scope
WaitUnlock(t) ==
    /\ qpc[t] = "w_unlock"
    /\ headLock' = 0
    /\ qreturned' = IF qval[t] # None THEN Append(qreturned, qval[t]) ELSE qreturned
    /\ qpc' = [qpc EXCEPT ![t] = IF qval[t] # None THEN "idle" ELSE "panicked"]
    /\ qval' = [qval EXCEPT ![t] = None]
    /\ wstart' = [wstart EXCEPT ![t] = -1]
    /\ UNCHANGED <<qhead, qtail, tailLock, cvWaiters, qempty, qrole, qleft,
                   qinserted, qdrain>>
    /\ UNCHANGED svars

(***************************************************************************)
(* is_empty                                                                *)
(***************************************************************************)
CallIsEmpty(t) ==
    /\ qpc[t] = "idle"
    /\ CanIsEmpty(t)
    /\ qpc' = [qpc EXCEPT ![t] = "e_lock_head"]
    /\ UNCHANGED <<qhead, qtail, headLock, tailLock, cvWaiters, qval, qempty, qrole,
                   qleft, qinserted, qreturned, qdrain, wstart>>
    /\ UNCHANGED svars

\* self.queue.head.lock()
EmptyLockHead(t) ==
    /\ qpc[t] = "e_lock_head"
    /\ headLock = 0
    /\ headLock' = t
    /\ qpc' = [qpc EXCEPT ![t] = "e_lock_tail"]
    /\ UNCHANGED <<qhead, qtail, tailLock, cvWaiters, qval, qempty, qrole, qleft,
                   qinserted, qreturned, qdrain, wstart>>
    /\ UNCHANGED svars

\* self.queue.tail.lock(), the head lock held
EmptyLockTail(t) ==
    /\ qpc[t] = "e_lock_tail"
    /\ tailLock = 0
    /\ tailLock' = t
    /\ qpc' = [qpc EXCEPT ![t] = "e_body"]
    /\ UNCHANGED <<qhead, qtail, headLock, cvWaiters, qval, qempty, qrole, qleft,
                   qinserted, qreturned, qdrain, wstart>>
    /\ UNCHANGED svars

\* the returned expression, both guards held
EmptyBody(t) ==
    /\ qpc[t] = "e_body"
    /\ qempty' = [qempty EXCEPT ![t] = IsEmptyResult(qhead, qtail)]
    /\ qpc' = [qpc EXCEPT ![t] = "e_unlock"]
    /\ UNCHANGED <<qhead, qtail, headLock, tailLock, cvWaiters, qval, qrole, qleft,
                   qinserted, qreturned, qdrain, wstart>>
    /\ UNCHANGED svars

\* the guards go out of scope in reverse order of their creation: the tail
\* guard first, the head guard still held
EmptyUnlockTail(t) ==
    /\ qpc[t] = "e_unlock"
    /\ tailLock' = 0
    /\ qpc' = [qpc EXCEPT ![t] = "e_unlock_head"]
    /\ UNCHANGED <<qhead, qtail, headLock, cvWaiters, qval, qempty, qrole, qleft,
                   qinserted, qreturned, qdrain, wstart>>
    /\ UNCHANGED svars

\* the head guard is dropped and is_empty returns
EmptyUnlockHead(t) ==
    /\ qpc[t] = "e_unlock_head"
    /\ headLock' = 0
    /\ qempty' = [qempty EXCEPT ![t] = FALSE]
    /\ qpc' = [qpc EXCEPT ![t] = "idle"]
    /\ UNCHANGED <<qhead, qtail, tailLock, cvWaiters, qval, qrole, qleft,
                   qinserted, qreturned, qdrain, wstart>>
    /\ UNCHANGED svars

QWaitStep(t) == CallWait(t) \/ WaitLockHead(t) \/ WaitHead(t) \/ WaitLockTail(t)
                \/ WaitFill(t) \/ WaitTake(t) \/ WaitSpurious(t) \/ WaitReacquire(t)
                \/ WaitCheck(t) \/ WaitUnlock(t)
QEmptyStep(t) == CallIsEmpty(t) \/ EmptyLockHead(t) \/ EmptyLockTail(t)
                 \/ EmptyBody(t) \/ EmptyUnlockTail(t) \/ EmptyUnlockHead(t)

\* the steps a thread takes once it is inside an operation: everything but the
\* calls (the driver need not call) and the spurious wake-up (it need not happen)
QRun(t) ==
    \/ PushLock(t) \/ PushBody(t) \/ PushNotify(t)
    \/ PopLockHead(t) \/ PopHead(t) \/ PopLockTail(t) \/ PopFill(t) \/ PopTake(t)
    \/ PopUnlock(t)
    \/ WaitLockHead(t) \/ WaitHead(t) \/ WaitLockTail(t) \/ WaitFill(t) \/ WaitTake(t)
    \/ WaitReacquire(t) \/ WaitCheck(t) \/ WaitUnlock(t)
    \/ EmptyLockHead(t) \/ EmptyLockTail(t) \/ EmptyBody(t) \/ EmptyUnlockTail(t)
    \/ EmptyUnlockHead(t)

(***************************************************************************)
(* Stackus: the heap.                                                      *)
(***************************************************************************)
\* a bit pattern in a freed node that is no value ever handed to push
Garbage == MaxVal + 1

\* the contents of a freed or never allocated address (not meaningful)
Junk == [value |-> None, next |-> NULL]

\* whether address p is allocated
Allocated(p) == heap[p] = "live"

\* the addresses alloc::alloc may return: one deallocated before, or the next
\* one never handed out (which of the fresh ones makes no difference)
Fresh == {a \in Addrs : heap[a] = "fresh"}
AllocChoices ==
    {a \in Addrs : heap[a] = "freed"}
        \cup {a \in Fresh : \A b \in Fresh : a <= b}

\* ptr::write(ptr, Nodus { value, next })
Nodus(v, nx) == [value |-> v, next |-> nx]

\* what `p.read().next` can yield: the field of a live node; anything for a
\* node already deallocated (use after free); nothing for NULL (the read traps)
ReadNext(p) ==
    IF p = NULL THEN {}
    ELSE IF Allocated(p) THEN {mem[p].next}
    ELSE Addrs \cup {NULL}

\* what `p.read().value` can yield, likewise: the freed block holds whatever the
\* allocator or a later owner wrote, a value some push supplied or one that none
\* did (Garbage stands for all of those)
ReadValue(p) ==
    IF p = NULL THEN {}
    ELSE IF Allocated(p) THEN {mem[p].value}
    ELSE Values \cup {Garbage}

\* the nodes reached from pointer p by following next links (from is {} at the
\* call); a deallocated node has no next to follow
RECURSIVE Reach(_, _)
Reach(p, from) ==
    IF p = NULL \/ p \in from THEN from
    ELSE IF Allocated(p) THEN Reach(mem[p].next, from \cup {p})
    ELSE from \cup {p}

\* the undefined behaviour a read through p is
ReadUb(p) ==
    IF p = NULL THEN {"null_deref"}
    ELSE IF Allocated(p) THEN {}
    ELSE {"use_after_free"}

(***************************************************************************)
(* Stackus: driver.                                                        *)
(***************************************************************************)
Pushers == {t \in SThreadSet : srole[t] = "pusher"}
PushersDone == \A t \in Pushers : spc[t] = "idle" /\ sleft[t] = 0

\* the Stackus is being dropped or has been dropped: no call can be made
Dropping == \E u \in SThreadSet : spc[u] \in {"drop_check", "drop_read", "drop_free", "dropped"}

CanSPush(t) == srole[t] \in {"seq", "pusher", "mixed"} /\ sleft[t] > 0 /\ ~Dropping
\* a drainer pops once every pusher has finished, until it gets None; a mixed
\* thread pops while it has calls left
CanSPop(t) ==
    /\ ~Dropping
    /\ \/ srole[t] = "seq"
       \/ srole[t] = "drainer" /\ PushersDone
       \/ srole[t] = "mixed" /\ sleft[t] > 0
\* the last owner drops the Stackus when no call is running
CanSDrop(t) == srole[t] = "owner" /\ \A u \in SThreadSet : spc[u] = "idle"

At(t, p) == ~crashed /\ spc[t] = p

\* a stack whose live list holds the values vs (last one on top), roles and push
\* budgets given; Stackus::new(seed) is the case vs = <<seed>>
SInitWith(vs, roles, left) ==
    /\ head = Len(vs)
    /\ threads_in_pop = 0
    /\ list_to_delete = NULL
    /\ mem = [a \in Addrs |-> IF a <= Len(vs) THEN Nodus(vs[a], a - 1) ELSE Junk]
    /\ heap = [a \in Addrs |-> IF a <= Len(vs) THEN "live" ELSE "fresh"]
    /\ crashed = FALSE
    /\ ub = {}
    /\ spc = [t \in SThreadSet |-> "idle"]
    /\ new_node = [t \in SThreadSet |-> NULL]
    /\ old_head = [t \in SThreadSet |-> NULL]
    /\ next_read = [t \in SThreadSet |-> NULL]
    /\ sval = [t \in SThreadSet |-> None]
    /\ nodes_to_delete = [t \in SThreadSet |-> NULL]
    /\ chain_list = [t \in SThreadSet |-> NULL]
    /\ chain_from = [t \in SThreadSet |-> "none"]
    /\ chain_loaded = [t \in SThreadSet |-> NULL]
    /\ srole = roles
    /\ sleft = left
    /\ sinserted = vs
    /\ spopped = <<>>
    /\ sref = IF \E t \in SThreadSet : roles[t] = "seq" THEN vs ELSE <<>>

\* no Stackus in use
SUnused ==
    SInitWith(<<>>, [t \in SThreadSet |-> "off"], [t \in SThreadSet |-> 0])

\* no Multiq in use
QUnused ==
    /\ qhead = EmptyData
    /\ qtail = EmptyData
    /\ headLock = 0
    /\ tailLock = 0
    /\ cvWaiters = {}
    /\ qpc = [t \in QThreadSet |-> "idle"]
    /\ qval = [t \in QThreadSet |-> None]
    /\ qempty = [t \in QThreadSet |-> FALSE]
    /\ qrole = [t \in QThreadSet |-> "off"]
    /\ qleft = 0
    /\ qinserted = <<>>
    /\ qreturned = <<>>
    /\ qdrain = [t \in QThreadSet |-> "no"]
    /\ wstart = [t \in QThreadSet |-> -1]

(***************************************************************************)
(* Stackus::push                                                           *)
(***************************************************************************)
\* push(value) is called: `next: self.head.load(SeqCst)` of the new node
SPushCall(t) ==
    /\ At(t, "idle")
    /\ CanSPush(t)
    /\ \E v \in Values :
          /\ sval' = [sval EXCEPT ![t] = v]
          /\ sinserted' = Append(sinserted, v)
          /\ sref' = IF srole[t] = "seq" THEN Append(sref, v) ELSE sref
    /\ next_read' = [next_read EXCEPT ![t] = head]
    /\ sleft' = [sleft EXCEPT ![t] = @ - 1]
    /\ spc' = [spc EXCEPT ![t] = "push_alloc"]
    /\ UNCHANGED <<head, threads_in_pop, list_to_delete, mem, heap, crashed, ub,
                   new_node, old_head, nodes_to_delete, chain_list, chain_from,
                   srole, spopped>>
    /\ UNCHANGED chain_loaded
    /\ UNCHANGED qvars

\* alloc::alloc(layout) and ptr::write(ptr, new_node)
SPushAlloc(t) ==
    /\ At(t, "push_alloc")
    /\ \E a \in AllocChoices :
          /\ mem' = [mem EXCEPT ![a] = Nodus(sval[t], next_read[t])]
          /\ heap' = [heap EXCEPT ![a] = "live"]
          /\ new_node' = [new_node EXCEPT ![t] = a]
    /\ sval' = [sval EXCEPT ![t] = None]
    /\ next_read' = [next_read EXCEPT ![t] = NULL]
    /\ spc' = [spc EXCEPT ![t] = "push_cas"]
    /\ UNCHANGED <<head, threads_in_pop, list_to_delete, crashed, ub, old_head,
                   nodes_to_delete, chain_list, chain_from, srole, sleft,
                   sinserted, spopped, sref>>
    /\ UNCHANGED chain_loaded
    /\ UNCHANGED qvars

\* bug: head is stored without being compared with heap_ref.next
SPushCasOk_Bug(t) ==
    /\ At(t, "push_cas")
    /\ head' = new_node[t]
    /\ new_node' = [new_node EXCEPT ![t] = NULL]
    /\ spc' = [spc EXCEPT ![t] = "idle"]
    /\ UNCHANGED <<threads_in_pop, list_to_delete, mem, heap, crashed, ub, old_head,
                   next_read, sval, nodes_to_delete, chain_list, chain_from, srole,
                   sleft, sinserted, spopped, sref>>
    /\ UNCHANGED chain_loaded
    /\ UNCHANGED qvars

\* head.compare_exchange_weak(heap_ref.next, heap_ref) succeeds: push returns
SPushCasOk(t) ==
    /\ At(t, "push_cas")
    /\ head = mem[new_node[t]].next
    /\ head' = new_node[t]
    /\ new_node' = [new_node EXCEPT ![t] = NULL]
    /\ spc' = [spc EXCEPT ![t] = "idle"]
    /\ UNCHANGED <<threads_in_pop, list_to_delete, mem, heap, crashed, ub, old_head,
                   next_read, sval, nodes_to_delete, chain_list, chain_from, srole,
                   sleft, sinserted, spopped, sref>>
    /\ UNCHANGED chain_loaded
    /\ UNCHANGED qvars

\* the CAS fails, because head changed or spuriously (compare_exchange_weak)
SPushCasFail(t) ==
    /\ At(t, "push_cas")
    /\ spc' = [spc EXCEPT ![t] = "push_reload"]
    /\ UNCHANGED <<head, threads_in_pop, list_to_delete, mem, heap, crashed, ub,
                   new_node, old_head, next_read, sval, nodes_to_delete, chain_list,
                   chain_from, srole, sleft, sinserted, spopped, sref>>
    /\ UNCHANGED chain_loaded
    /\ UNCHANGED qvars

\* Err(_) => heap_ref.next = self.head.load(SeqCst)
SPushReload(t) ==
    /\ At(t, "push_reload")
    /\ mem' = [mem EXCEPT ![new_node[t]].next = head]
    /\ spc' = [spc EXCEPT ![t] = "push_cas"]
    /\ UNCHANGED <<head, threads_in_pop, list_to_delete, heap, crashed, ub,
                   new_node, old_head, next_read, sval, nodes_to_delete, chain_list,
                   chain_from, srole, sleft, sinserted, spopped, sref>>
    /\ UNCHANGED chain_loaded
    /\ UNCHANGED qvars

(***************************************************************************)
(* Stackus::pop                                                            *)
(***************************************************************************)
\* pop() is called: self.threads_in_pop.fetch_add(1, SeqCst)
SPopCall(t) ==
    /\ At(t, "idle")
    /\ CanSPop(t)
    /\ threads_in_pop' = threads_in_pop + 1
    /\ sleft' = [sleft EXCEPT ![t] = IF srole[t] = "mixed" THEN @ - 1 ELSE @]
    /\ spc' = [spc EXCEPT ![t] = "pop_load"]
    /\ UNCHANGED <<head, list_to_delete, mem, heap, crashed, ub, new_node, old_head,
                   next_read, sval, nodes_to_delete, chain_list, chain_from, srole,
                   sinserted, spopped, sref>>
    /\ UNCHANGED chain_loaded
    /\ UNCHANGED qvars

\* let old_head = self.head.load(SeqCst), once, before the loop
SPopLoad(t) ==
    /\ At(t, "pop_load")
    /\ old_head' = [old_head EXCEPT ![t] = head]
    /\ spc' = [spc EXCEPT ![t] = "pop_check"]
    /\ UNCHANGED <<head, threads_in_pop, list_to_delete, mem, heap, crashed, ub,
                   new_node, next_read, sval, nodes_to_delete, chain_list, chain_from,
                   srole, sleft, sinserted, spopped, sref>>
    /\ UNCHANGED chain_loaded
    /\ UNCHANGED qvars

\* loop { if !self.head.load(SeqCst).is_null() ... else ... }
SPopCheck(t) ==
    /\ At(t, "pop_check")
    /\ spc' = [spc EXCEPT ![t] = IF head # NULL THEN "pop_read" ELSE "pop_none"]
    /\ UNCHANGED <<head, threads_in_pop, list_to_delete, mem, heap, crashed, ub,
                   new_node, old_head, next_read, sval, nodes_to_delete, chain_list,
                   chain_from, srole, sleft, sinserted, spopped, sref>>
    /\ UNCHANGED chain_loaded
    /\ UNCHANGED qvars

\* unsafe { old_head.read().next }, the new value handed to the CAS
SPopRead(t) ==
    /\ At(t, "pop_read")
    /\ ub' = ub \cup ReadUb(old_head[t])
    /\ IF old_head[t] = NULL
       THEN /\ crashed' = TRUE
            /\ UNCHANGED <<next_read, spc>>
       ELSE /\ \E nx \in ReadNext(old_head[t]) : next_read' = [next_read EXCEPT ![t] = nx]
            /\ spc' = [spc EXCEPT ![t] = "pop_cas"]
            /\ UNCHANGED crashed
    /\ UNCHANGED <<head, threads_in_pop, list_to_delete, mem, heap, new_node,
                   old_head, sval, nodes_to_delete, chain_list, chain_from, srole,
                   sleft, sinserted, spopped, sref>>
    /\ UNCHANGED chain_loaded
    /\ UNCHANGED qvars

\* bug: the CAS installs null instead of old_head's next
SPopCasOk_Bug(t) ==
    /\ At(t, "pop_cas")
    /\ head = old_head[t]
    /\ head' = NULL
    /\ next_read' = [next_read EXCEPT ![t] = NULL]
    /\ spc' = [spc EXCEPT ![t] = "pop_take"]
    /\ UNCHANGED <<threads_in_pop, list_to_delete, mem, heap, crashed, ub, new_node,
                   old_head, sval, nodes_to_delete, chain_list, chain_from, srole,
                   sleft, sinserted, spopped, sref>>
    /\ UNCHANGED chain_loaded
    /\ UNCHANGED qvars

\* head.compare_exchange_weak(old_head, next) succeeds
SPopCasOk(t) ==
    /\ At(t, "pop_cas")
    /\ head = old_head[t]
    /\ head' = next_read[t]
    /\ next_read' = [next_read EXCEPT ![t] = NULL]
    /\ spc' = [spc EXCEPT ![t] = "pop_take"]
    /\ UNCHANGED <<threads_in_pop, list_to_delete, mem, heap, crashed, ub, new_node,
                   old_head, sval, nodes_to_delete, chain_list, chain_from, srole,
                   sleft, sinserted, spopped, sref>>
    /\ UNCHANGED chain_loaded
    /\ UNCHANGED qvars

\* the CAS fails, because head is not old_head or spuriously: the loop goes
\* round with the same old_head
SPopCasFail(t) ==
    /\ At(t, "pop_cas")
    /\ next_read' = [next_read EXCEPT ![t] = NULL]
    /\ spc' = [spc EXCEPT ![t] = "pop_check"]
    /\ UNCHANGED <<head, threads_in_pop, list_to_delete, mem, heap, crashed, ub,
                   new_node, old_head, sval, nodes_to_delete, chain_list, chain_from,
                   srole, sleft, sinserted, spopped, sref>>
    /\ UNCHANGED chain_loaded
    /\ UNCHANGED qvars

\* let allocated_node = unsafe { old_head.read() }; the value is moved out
SPopTake(t) ==
    /\ At(t, "pop_take")
    /\ ub' = ub \cup ReadUb(old_head[t])
    /\ \E v \in ReadValue(old_head[t]) : sval' = [sval EXCEPT ![t] = v]
    /\ spc' = [spc EXCEPT ![t] = "reclaim"]
    /\ UNCHANGED <<head, threads_in_pop, list_to_delete, mem, heap, crashed,
                   new_node, old_head, next_read, nodes_to_delete, chain_list,
                   chain_from, srole, sleft, sinserted, spopped, sref>>
    /\ UNCHANGED chain_loaded
    /\ UNCHANGED qvars

\* bug: None is returned without the exit decrement
SPopNone_Bug(t) ==
    /\ At(t, "pop_none")
    /\ old_head' = [old_head EXCEPT ![t] = NULL]
    /\ spc' = [spc EXCEPT ![t] = IF srole[t] = "drainer" THEN "done" ELSE "idle"]
    /\ UNCHANGED <<head, threads_in_pop, list_to_delete, mem, heap, crashed, ub,
                   new_node, next_read, sval, nodes_to_delete, chain_list, chain_from,
                   srole, sleft, sinserted, spopped, sref>>
    /\ UNCHANGED chain_loaded
    /\ UNCHANGED qvars

\* the stack was empty: threads_in_pop.fetch_sub(1, SeqCst); return None
SPopNone(t) ==
    /\ At(t, "pop_none")
    /\ threads_in_pop' = threads_in_pop - 1
    /\ old_head' = [old_head EXCEPT ![t] = NULL]
    /\ spc' = [spc EXCEPT ![t] = IF srole[t] = "drainer" THEN "done" ELSE "idle"]
    /\ UNCHANGED <<head, list_to_delete, mem, heap, crashed, ub, new_node,
                   next_read, sval, nodes_to_delete, chain_list, chain_from, srole,
                   sleft, sinserted, spopped, sref>>
    /\ UNCHANGED chain_loaded
    /\ UNCHANGED qvars

(***************************************************************************)
(* Stackus::try_reclaim, delete_nodes, chain_pending_nodes                 *)
(***************************************************************************)
\* bug: the node is not given back to the allocator
Dealloc_Bug(p) == heap

\* alloc::dealloc(p): the heap after it; deallocating what is not allocated is a
\* double free
Dealloc(p) == [heap EXCEPT ![p] = "freed"]
DeallocMem(p) == [mem EXCEPT ![p] = Junk]
DeallocUb(p) == IF Allocated(p) THEN {} ELSE {"double_free"}

\* pop returns Some(inner.value)
ReturnSome(t) ==
    /\ spopped' = Append(spopped, sval[t])
    /\ sref' = IF srole[t] = "seq" /\ sref # <<>> THEN SubSeq(sref, 1, Len(sref) - 1)
                                                 ELSE sref
    /\ sval' = [sval EXCEPT ![t] = None]
    /\ old_head' = [old_head EXCEPT ![t] = NULL]
    /\ spc' = [spc EXCEPT ![t] = "idle"]

\* if self.threads_in_pop.load(SeqCst) == 1
SReclaimLoad(t) ==
    /\ At(t, "reclaim")
    /\ IF threads_in_pop = 1
       THEN /\ spc' = [spc EXCEPT ![t] = "reclaim_swap"]
            /\ UNCHANGED <<chain_list, chain_from>>
       ELSE \* self.chain_pending_nodes(old_head)
            /\ spc' = [spc EXCEPT ![t] = "chain_cas"]
            /\ chain_list' = [chain_list EXCEPT ![t] = old_head[t]]
            /\ chain_from' = [chain_from EXCEPT ![t] = "old_head"]
    /\ UNCHANGED <<head, threads_in_pop, list_to_delete, mem, heap, crashed, ub,
                   new_node, old_head, next_read, sval, nodes_to_delete, srole,
                   sleft, sinserted, spopped, sref>>
    /\ UNCHANGED chain_loaded
    /\ UNCHANGED qvars

\* let nodes_to_delete = self.list_to_delete.swap(ptr::null_mut(), AcqRel)
SReclaimSwap(t) ==
    /\ At(t, "reclaim_swap")
    /\ nodes_to_delete' = [nodes_to_delete EXCEPT ![t] = list_to_delete]
    /\ list_to_delete' = NULL
    /\ spc' = [spc EXCEPT ![t] = "reclaim_dec"]
    /\ UNCHANGED <<head, threads_in_pop, mem, heap, crashed, ub, new_node, old_head,
                   next_read, sval, chain_list, chain_from, srole, sleft, sinserted,
                   spopped, sref>>
    /\ UNCHANGED chain_loaded
    /\ UNCHANGED qvars

\* if self.threads_in_pop.fetch_sub(1, SeqCst) == 1 { delete_nodes } else { chain }
SReclaimDec(t) ==
    /\ At(t, "reclaim_dec")
    /\ threads_in_pop' = threads_in_pop - 1
    /\ IF threads_in_pop = 1
       THEN /\ spc' = [spc EXCEPT ![t] = "delete_nodes"]
            /\ UNCHANGED <<chain_list, chain_from>>
       ELSE /\ spc' = [spc EXCEPT ![t] = "chain_cas"]
            /\ chain_list' = [chain_list EXCEPT ![t] = nodes_to_delete[t]]
            /\ chain_from' = [chain_from EXCEPT ![t] = "claimed"]
    /\ UNCHANGED <<head, list_to_delete, mem, heap, crashed, ub, new_node, old_head,
                   next_read, sval, nodes_to_delete, srole, sleft, sinserted, spopped,
                   sref>>
    /\ UNCHANGED chain_loaded
    /\ UNCHANGED qvars

\* delete_nodes(list): while !list.is_null() { dealloc(list) }; `list` is never
\* advanced.  One step is one evaluation of the loop: it leaves the loop on a
\* null list, and deallocates the same address again otherwise; a second
\* deallocation is a double free, on which the allocator may abort the process
SDeleteNodes(t) ==
    /\ At(t, "delete_nodes")
    /\ IF nodes_to_delete[t] = NULL
       THEN /\ spc' = [spc EXCEPT ![t] = "reclaim_free"]
            /\ UNCHANGED <<heap, mem, ub, crashed>>
       ELSE /\ heap' = Dealloc(nodes_to_delete[t])
            /\ mem' = DeallocMem(nodes_to_delete[t])
            /\ ub' = ub \cup DeallocUb(nodes_to_delete[t])
            /\ crashed' \in (IF Allocated(nodes_to_delete[t]) THEN {FALSE} ELSE {FALSE, TRUE})
            /\ UNCHANGED spc
    /\ UNCHANGED <<head, threads_in_pop, list_to_delete, new_node, old_head, next_read,
                   sval, nodes_to_delete, chain_list, chain_from, srole, sleft,
                   sinserted, spopped, sref>>
    /\ UNCHANGED chain_loaded
    /\ UNCHANGED qvars

\* chain_pending_nodes: list_to_delete.compare_exchange_weak(null, list) succeeds
SChainCasOk(t) ==
    /\ At(t, "chain_cas")
    /\ list_to_delete = NULL
    /\ list_to_delete' = chain_list[t]
    /\ chain_list' = [chain_list EXCEPT ![t] = NULL]
    /\ spc' = [spc EXCEPT ![t] = IF chain_from[t] = "old_head" THEN "reclaim_exit"
                                                               ELSE "reclaim_free"]
    /\ UNCHANGED <<head, threads_in_pop, mem, heap, crashed, ub, new_node, old_head,
                   next_read, sval, nodes_to_delete, chain_from, srole, sleft,
                   sinserted, spopped, sref>>
    /\ UNCHANGED chain_loaded
    /\ UNCHANGED qvars

\* the CAS fails, because list_to_delete is not null or spuriously
SChainCasFail(t) ==
    /\ At(t, "chain_cas")
    /\ spc' = [spc EXCEPT ![t] = "chain_load"]
    /\ UNCHANGED <<head, threads_in_pop, list_to_delete, mem, heap, crashed, ub,
                   new_node, old_head, next_read, sval, nodes_to_delete, chain_list,
                   chain_from, srole, sleft, sinserted, spopped, sref>>
    /\ UNCHANGED chain_loaded
    /\ UNCHANGED qvars

\* Err(_) => self.list_to_delete.load(SeqCst) : the atomic load, a step of its
\* own before the node it returned is read
SChainLoad(t) ==
    /\ At(t, "chain_load")
    /\ chain_loaded' = [chain_loaded EXCEPT ![t] = list_to_delete]
    /\ spc' = [spc EXCEPT ![t] = "chain_write"]
    /\ UNCHANGED <<head, threads_in_pop, list_to_delete, mem, heap, crashed, ub,
                   new_node, old_head, next_read, sval, nodes_to_delete, chain_list,
                   chain_from, srole, sleft, sinserted, spopped, sref>>
    /\ UNCHANGED qvars

\* .read().next = list : the node the load returned is read by value (it may
\* have been deallocated since the load) and `next` is assigned in that
\* temporary copy, so no node of the heap changes and `list` is linked nowhere.
\* When the load returned null the read is a null dereference: the process is
\* killed (the read is executed) or goes on (the read, whose result is not
\* used, is compiled away)
SChainWrite(t) ==
    /\ At(t, "chain_write")
    /\ ub' = ub \cup ReadUb(chain_loaded[t])
    /\ \/ /\ chain_loaded[t] = NULL
          /\ crashed' = TRUE
          /\ UNCHANGED <<spc, chain_list, chain_loaded>>
       \/ /\ spc' = [spc EXCEPT ![t] = IF chain_from[t] = "old_head" THEN "reclaim_exit"
                                                                     ELSE "reclaim_free"]
          /\ chain_list' = [chain_list EXCEPT ![t] = NULL]
          /\ chain_loaded' = [chain_loaded EXCEPT ![t] = NULL]
          /\ UNCHANGED crashed
    /\ UNCHANGED <<head, threads_in_pop, list_to_delete, mem, heap, new_node,
                   old_head, next_read, sval, nodes_to_delete, chain_from, srole,
                   sleft, sinserted, spopped, sref>>
    /\ UNCHANGED qvars

\* "delete old_head": alloc::dealloc(old_head), then pop returns Some(value)
SReclaimFree(t) ==
    /\ At(t, "reclaim_free")
    /\ heap' = Dealloc(old_head[t])
    /\ mem' = DeallocMem(old_head[t])
    /\ ub' = ub \cup DeallocUb(old_head[t])
    /\ crashed' \in (IF Allocated(old_head[t]) THEN {FALSE} ELSE {FALSE, TRUE})
    /\ nodes_to_delete' = [nodes_to_delete EXCEPT ![t] = NULL]
    /\ chain_from' = [chain_from EXCEPT ![t] = "none"]
    /\ ReturnSome(t)
    /\ UNCHANGED <<head, threads_in_pop, list_to_delete, new_node, next_read,
                   chain_list, srole, sleft, sinserted>>
    /\ UNCHANGED chain_loaded
    /\ UNCHANGED qvars

\* old_head was chained: threads_in_pop.fetch_sub(1, SeqCst), then pop returns
\* Some(value)
SReclaimExit(t) ==
    /\ At(t, "reclaim_exit")
    /\ threads_in_pop' = threads_in_pop - 1
    /\ chain_from' = [chain_from EXCEPT ![t] = "none"]
    /\ ReturnSome(t)
    /\ UNCHANGED <<head, list_to_delete, mem, heap, crashed, ub, new_node,
                   next_read, nodes_to_delete, chain_list, srole, sleft, sinserted>>
    /\ UNCHANGED chain_loaded
    /\ UNCHANGED qvars

(***************************************************************************)
(* Drop for Stackus.  cur_head is kept in old_head[t], next_head in         *)
(* next_read[t].                                                           *)
(***************************************************************************)
\* the undefined behaviour of drop, by kind
DropReadUb(p) == IF Allocated(p) THEN {} ELSE {"teardown_read_freed"}
DropFreeUb(p) == IF Allocated(p) THEN {} ELSE {"teardown_double_free"}

\* drop(&mut self): let mut cur_head = self.head.load(SeqCst)
SDropCall(t) ==
    /\ At(t, "idle")
    /\ CanSDrop(t)
    /\ old_head' = [old_head EXCEPT ![t] = head]
    /\ spc' = [spc EXCEPT ![t] = "drop_check"]
    /\ UNCHANGED <<head, threads_in_pop, list_to_delete, mem, heap, crashed, ub,
                   new_node, next_read, sval, nodes_to_delete, chain_list, chain_from,
                   srole, sleft, sinserted, spopped, sref>>
    /\ UNCHANGED chain_loaded
    /\ UNCHANGED qvars

\* while !cur_head.is_null()
SDropCheck(t) ==
    /\ At(t, "drop_check")
    /\ spc' = [spc EXCEPT ![t] = IF old_head[t] # NULL THEN "drop_read" ELSE "dropped"]
    /\ UNCHANGED <<head, threads_in_pop, list_to_delete, mem, heap, crashed, ub,
                   new_node, old_head, next_read, sval, nodes_to_delete, chain_list,
                   chain_from, srole, sleft, sinserted, spopped, sref>>
    /\ UNCHANGED chain_loaded
    /\ UNCHANGED qvars

\* let next_head = unsafe { self.head.load(SeqCst).read().next }: read through
\* head, which drop never changes, not through cur_head
SDropRead(t) ==
    /\ At(t, "drop_read")
    /\ ub' = ub \cup DropReadUb(head)
    /\ \E nx \in ReadNext(head) : next_read' = [next_read EXCEPT ![t] = nx]
    /\ spc' = [spc EXCEPT ![t] = "drop_free"]
    /\ UNCHANGED <<head, threads_in_pop, list_to_delete, mem, heap, crashed,
                   new_node, old_head, sval, nodes_to_delete, chain_list, chain_from,
                   srole, sleft, sinserted, spopped, sref>>
    /\ UNCHANGED chain_loaded
    /\ UNCHANGED qvars

\* alloc::dealloc(cur_head); cur_head = next_head
SDropFree(t) ==
    /\ At(t, "drop_free")
    /\ heap' = Dealloc(old_head[t])
    /\ mem' = DeallocMem(old_head[t])
    /\ ub' = ub \cup DropFreeUb(old_head[t])
    /\ crashed' \in (IF Allocated(old_head[t]) THEN {FALSE} ELSE {FALSE, TRUE})
    /\ old_head' = [old_head EXCEPT ![t] = next_read[t]]
    /\ next_read' = [next_read EXCEPT ![t] = NULL]
    /\ spc' = [spc EXCEPT ![t] = "drop_check"]
    /\ UNCHANGED <<head, threads_in_pop, list_to_delete, new_node, sval,
                   nodes_to_delete, chain_list, chain_from, srole, sleft, sinserted,
                   spopped, sref>>
    /\ UNCHANGED chain_loaded
    /\ UNCHANGED qvars

SDropStep(t) == SDropCall(t) \/ SDropCheck(t) \/ SDropRead(t) \/ SDropFree(t)

SPushStep(t) == SPushCall(t) \/ SPushAlloc(t) \/ SPushCasOk(t) \/ SPushCasFail(t)
                \/ SPushReload(t)
\* pop while it is the only pop in flight
SPopAloneStep(t) == SPopCall(t) \/ SPopLoad(t) \/ SPopCheck(t) \/ SPopRead(t)
                    \/ SPopCasOk(t) \/ SPopCasFail(t) \/ SPopTake(t) \/ SPopNone(t)
                    \/ SReclaimLoad(t) \/ SReclaimSwap(t) \/ SReclaimDec(t)
                    \/ SDeleteNodes(t) \/ SReclaimFree(t)
\* the steps only concurrent pops reach
SPopSharedStep(t) == SChainCasOk(t) \/ SChainCasFail(t) \/ SChainLoad(t)
                     \/ SChainWrite(t) \/ SReclaimExit(t)

\* the steps of a thread inside push or pop
SRun(t) ==
    \/ SPushAlloc(t) \/ SPushCasOk(t) \/ SPushCasFail(t) \/ SPushReload(t)
    \/ SPopLoad(t) \/ SPopCheck(t) \/ SPopRead(t) \/ SPopCasOk(t) \/ SPopCasFail(t)
    \/ SPopTake(t) \/ SPopNone(t) \/ SReclaimLoad(t) \/ SReclaimSwap(t)
    \/ SReclaimDec(t) \/ SDeleteNodes(t) \/ SChainCasOk(t) \/ SChainCasFail(t)
    \/ SChainLoad(t) \/ SChainWrite(t) \/ SReclaimFree(t) \/ SReclaimExit(t)

(***************************************************************************)
(* Specification QSeqSpec: one thread calling push and pop.                *)
(* Specification QPPSpec : producers calling push, consumers calling pop.  *)
(***************************************************************************)
QSeqInit ==
    \E seed \in Values :
        /\ QInitWith(seed, [t \in QThreadSet |-> IF t = 1 THEN "seq" ELSE "off"], MaxPush + 1)
        /\ SUnused

\* threads 1..n produce, the others consume; the producers make `left` pushes in all
QPPInit ==
    \E seed \in Values :
    \E n \in 0..QThreads :
    \E left \in 0..MaxPush :
        /\ n = 0 => left = 0
        /\ QInitWith(seed, [t \in QThreadSet |-> IF t <= n THEN "producer" ELSE "consumer"], left)
        /\ SUnused

QPPNext == \E t \in QThreadSet : QPushStep(t) \/ QPopStep(t)

QSeqSpec == QSeqInit /\ [][QPPNext]_vars
QPPSpec == QPPInit /\ [][QPPNext]_vars

(***************************************************************************)
(* Specification QSpec: every thread may call push, pop, wait_and_pop and  *)
(* is_empty.  QFairSpec adds the scheduler's fairness: a thread inside an  *)
(* operation that can take its next step eventually takes it.              *)
(***************************************************************************)
QInit ==
    \E seed \in Values :
    \E left \in 0..MaxPush :
        /\ QInitWith(seed, [t \in QThreadSet |-> IF t <= WThreads THEN "any" ELSE "off"], left)
        /\ SUnused

QNext == \E t \in QThreadSet : QPushStep(t) \/ QPopStep(t) \/ QWaitStep(t) \/ QEmptyStep(t)

QSpec == QInit /\ [][QNext]_vars
QFairSpec == QSpec /\ \A t \in QThreadSet : WF_vars(QRun(t))

(***************************************************************************)
(* Specification SSeqSpec : one thread calling push and pop on a Stackus.  *)
(* Specification SPushSpec: threads 2.. push concurrently; when they have  *)
(*   all finished thread 1 pops until None (stack_push_works).             *)
(* Specification SDrainSpec: every thread pops until None from a stack     *)
(*   that holds up to MaxInit nodes (stack_pop_works).                     *)
(* The ...Fair specifications add the scheduler's fairness: a thread that   *)
(* can take its next step eventually takes it, the driver's calls          *)
(* included, and a compare_exchange_weak that could succeed again and      *)
(* again does not fail spuriously for ever.                                *)
(***************************************************************************)
SSeqInit ==
    \E seed \in Values :
        /\ SInitWith(<<seed>>, [t \in SThreadSet |-> IF t = 1 THEN "seq" ELSE "off"],
                     [t \in SThreadSet |-> IF t = 1 THEN SPushEach + 1 ELSE 0])
        /\ QUnused

SPushInit ==
    \E seed \in Values :
        /\ SInitWith(<<seed>>, [t \in SThreadSet |-> IF t = 1 THEN "drainer" ELSE "pusher"],
                     [t \in SThreadSet |-> IF t = 1 THEN 0 ELSE SPushEach])
        /\ QUnused

SDrainInit ==
    \E n \in 1..MaxInit : \E vs \in [1..n -> Values] :
        /\ SInitWith(vs, [t \in SThreadSet |-> IF t <= DThreads THEN "drainer" ELSE "off"],
                     [t \in SThreadSet |-> 0])
        /\ QUnused

\* threads 1..MThreads call push and pop in any order, concurrently, on a stack
\* of MixInit nodes: thread 1 makes MixOps calls, every other thread one call
SMixInit ==
    \E vs \in [1..MixInit -> Values] :
        /\ SInitWith(vs, [t \in SThreadSet |-> IF t <= MThreads THEN "mixed" ELSE "off"],
                     [t \in SThreadSet |-> IF t = 1 THEN MixOps
                                           ELSE IF t <= MThreads THEN 1 ELSE 0])
        /\ QUnused

SSeqNext == \E t \in SThreadSet : SPushStep(t) \/ SPopAloneStep(t)
SMixNext == \E t \in SThreadSet : SPushStep(t) \/ SPopAloneStep(t) \/ SPopSharedStep(t)
SDrainNext == \E t \in SThreadSet : SPopAloneStep(t) \/ SPopSharedStep(t)

\* a running thread takes its next step; a CAS that could succeed again and
\* again does succeed
SPushFairness ==
    \A t \in SThreadSet :
        /\ WF_vars(SPushCall(t) \/ SPopCall(t) \/ SRun(t))
        /\ SF_vars(SPushCasOk(t))
SDrainFairness ==
    \A t \in SThreadSet :
        /\ WF_vars(SPopCall(t) \/ SRun(t))
        /\ SF_vars(SPopCasOk(t))
        /\ SF_vars(SChainCasOk(t))

SSeqSpec == SSeqInit /\ [][SSeqNext]_vars
SPushSpec == SPushInit /\ [][SSeqNext]_vars
SPushFairSpec == SPushSpec /\ SPushFairness
SDrainSpec == SDrainInit /\ [][SDrainNext]_vars
SDrainFairSpec == SDrainSpec /\ SDrainFairness
SMixSpec == SMixInit /\ [][SMixNext]_vars
\* a running call takes its next step, and a CAS that could succeed again and
\* again does succeed; the driver need not make its remaining calls
SMixFairness ==
    \A t \in SThreadSet :
        /\ WF_vars(SRun(t))
        /\ SF_vars(SPushCasOk(t))
        /\ SF_vars(SPopCasOk(t))
        /\ SF_vars(SChainCasOk(t))
SMixFairSpec == SMixSpec /\ SMixFairness

\* SDropSpec: thread 1, the last owner, drops a Stackus on which no call is
\* running.  The live list holds the k values vs (nodes 1..k); with m = 1 the
\* pending list holds one more node, k + 1, as left behind when a pop unlinked
\* the only node of the stack and chained it while another pop was in flight,
\* the k values being pushed afterwards.
SDropInit ==
    \E k \in 0..MaxInit : \E vs \in [1..k -> Values] : \E m \in {0, 1} : \E pv \in Values :
        /\ head = k
        /\ threads_in_pop = 0
        /\ list_to_delete = IF m = 1 THEN k + 1 ELSE NULL
        /\ mem = [a \in Addrs |-> IF a <= k THEN Nodus(vs[a], a - 1)
                                  ELSE IF a = k + m THEN Nodus(pv, NULL) ELSE Junk]
        /\ heap = [a \in Addrs |-> IF a <= k + m THEN "live" ELSE "fresh"]
        /\ crashed = FALSE
        /\ ub = {}
        /\ spc = [t \in SThreadSet |-> "idle"]
        /\ new_node = [t \in SThreadSet |-> NULL]
        /\ old_head = [t \in SThreadSet |-> NULL]
        /\ next_read = [t \in SThreadSet |-> NULL]
        /\ sval = [t \in SThreadSet |-> None]
        /\ nodes_to_delete = [t \in SThreadSet |-> NULL]
        /\ chain_list = [t \in SThreadSet |-> NULL]
        /\ chain_from = [t \in SThreadSet |-> "none"]
        /\ chain_loaded = [t \in SThreadSet |-> NULL]
        /\ srole = [t \in SThreadSet |-> IF t = 1 THEN "owner" ELSE "off"]
        /\ sleft = [t \in SThreadSet |-> 0]
        /\ sinserted = IF m = 1 THEN <<pv>> \o vs ELSE vs
        /\ spopped = IF m = 1 THEN <<pv>> ELSE <<>>
        /\ sref = <<>>
        /\ pv = 1 \/ m = 1
        /\ QUnused

SDropNext == \E t \in SThreadSet : SDropStep(t)
SDropSpec == SDropInit /\ [][SDropNext]_vars

(***************************************************************************)
(* Properties of the queue.                                                *)
(***************************************************************************)
\* the multiset of the values of a sequence
BagOf(seq) == [v \in Values |-> Cardinality({i \in DOMAIN seq : seq[i] = v})]

\* the reference FIFO: what was inserted and not yet returned, oldest first
RefQueue == SubSeq(qinserted, Len(qreturned) + 1, Len(qinserted))
RefFront == IF RefQueue = <<>> THEN None ELSE Head(RefQueue)

AllIdle == \A t \in QThreadSet : qpc[t] = "idle"

\* C1: with one thread calling push and pop, the value a pop is about to return is
\* the front of the reference FIFO initialised to [seed] (None when it is empty).
C1_SeqFifo ==
    \A t \in QThreadSet : qpc[t] = "pop_unlock" => qval[t] = RefFront

\* C1 witness: a pop returns the third inserted value, after the seed and a pushed
\* value were returned.
C1_Witness ==
    \E t \in QThreadSet :
        /\ qpc[t] = "pop_unlock"
        /\ Len(qreturned) = 2
        /\ qval[t] # None
        /\ qval[t] = qinserted[3]

Consumers == {t \in QThreadSet : qrole[t] = "consumer"}
\* all producers have finished and every consumer then popped until None
QDrained ==
    /\ ProducersDone
    /\ AllIdle
    /\ Consumers # {}
    /\ \A c \in Consumers : qdrain[c] = "empty"

\* C2: producers push, consumers pop; once all producers have finished and every
\* consumer has popped until the empty result, the multiset returned equals the
\* multiset inserted (seed and pushes).
C2_Conservation == QDrained => BagOf(qreturned) = BagOf(qinserted)

\* C2 witness: a drained state with two producers' pushes and the seed returned.
C2_Witness ==
    /\ QDrained
    /\ Cardinality(Producers) >= 2
    /\ Len(qinserted) = MaxPush + 1
    /\ Len(qreturned) = Len(qinserted)

\* C3: whenever neither lock is held, head followed by tail is exactly the
\* inserted values not yet returned, oldest first.
C3_ContentInvariant ==
    (headLock = 0 /\ tailLock = 0) => qhead \o qtail = RefQueue

\* wait_and_pop never unwraps None, and one that waited returns the first value
\* inserted after it began to wait
WaitSafety ==
    \A t \in QThreadSet :
        /\ qpc[t] # "panicked"
        /\ qpc[t] = "w_unlock" =>
              /\ qval[t] # None
              /\ wstart[t] >= 0 =>
                    /\ Len(qinserted) > wstart[t]
                    /\ qval[t] = qinserted[wstart[t] + 1]
\* a waiting wait_and_pop returns once the tail holds a value
WaitLive ==
    \A t \in QThreadSet :
        (qpc[t] \in {"w_wait", "w_reacquire", "w_check"} /\ HasValue(qtail))
            ~> (qpc[t] = "idle")

\* C4: a wait_and_pop that found both regions empty returns only after a push
\* linked a value, returns the first value inserted after it began to wait, never
\* unwraps None, and (fair scheduling) does return once a push has linked a value.
C4_WaitAndPop == []WaitSafety /\ WaitLive

\* C4 witness: a wait_and_pop that waited is about to return the value pushed
\* meanwhile.
C4_Witness ==
    \E t \in QThreadSet :
        /\ qpc[t] = "w_unlock"
        /\ wstart[t] >= 1
        /\ qval[t] = qinserted[wstart[t] + 1]

\* C5: an invoked pop returns, whatever the other threads do, with no push needed.
C5_PopReturns ==
    \A t \in QThreadSet : (qpc[t] = "pop_lock_head") ~> (qpc[t] = "idle")

HeadRequest(t) == qpc[t] \in {"pop_lock_head", "w_lock_head", "e_lock_head"}
TailRequest(t) == qpc[t] \in {"push_lock", "pop_lock_fill", "pop_lock_take", "w_lock_fill",
                              "w_lock_take", "w_reacquire", "e_lock_tail"}
InPush(t) == qpc[t] \in {"push_lock", "push_body", "push_notify"}
InWaitAndPop(t) == qpc[t] \in {"w_lock_head", "w_head", "w_lock_fill", "w_lock_take", "w_fill",
                               "w_take", "w_wait", "w_reacquire", "w_check", "w_unlock"}
LockOrder ==
    \A t \in QThreadSet :
        /\ HeadRequest(t) => tailLock # t
        /\ InPush(t) => headLock # t /\ ~HeadRequest(t)
\* t waits for a lock that u holds
WaitsFor(t, u) ==
    \/ HeadRequest(t) /\ headLock = u
    \/ TailRequest(t) /\ tailLock = u
NoLockCycle ==
    ~ \E t, u \in QThreadSet : t # u /\ WaitsFor(t, u) /\ WaitsFor(u, t)

\* C6: the head lock is never requested while the tail lock is held, push never
\* requests the head lock, no threads wait for each other's locks, and only a
\* thread inside wait_and_pop can stay blocked for ever: a thread in push, pop or
\* is_empty does not stay at a lock request for ever.
C6_OnlyWaitersBlock ==
    /\ []LockOrder
    /\ []NoLockCycle
    /\ \A t \in QThreadSet :
          []<>~((HeadRequest(t) \/ TailRequest(t)) /\ ~InWaitAndPop(t))

\* C7: is_empty returns true exactly when head and tail hold no value, and it
\* returns true once every other operation has returned and as many values were
\* returned as were inserted.
C7_IsEmpty ==
    \A t \in QThreadSet :
        qpc[t] = "e_unlock" =>
            /\ qempty[t] <=> (qhead = EmptyData /\ qtail = EmptyData)
            /\ ((\A u \in QThreadSet \ {t} : qpc[u] = "idle")
                  /\ Len(qreturned) = Len(qinserted)) => qempty[t]

\* C7 witness: is_empty computes true after the seed and a pushed value were
\* returned and all other threads are idle.
C7_Witness ==
    \E t \in QThreadSet :
        /\ qpc[t] = "e_unlock"
        /\ qempty[t]
        /\ \A u \in QThreadSet \ {t} : qpc[u] = "idle"
        /\ Len(qinserted) >= 2
        /\ Len(qreturned) = Len(qinserted)

(***************************************************************************)
(* Properties of the stack.                                                *)
(***************************************************************************)
InSPush(t) == spc[t] \in {"push_alloc", "push_cas", "push_reload"}
InChain(t) == spc[t] \in {"chain_cas", "chain_load", "chain_write", "reclaim_exit"}
ReturnsSome(t) == spc[t] \in {"reclaim_free", "reclaim_exit"}
Drainers == {t \in SThreadSet : srole[t] = "drainer"}
AllDrained == \A t \in Drainers : spc[t] = "done"

\* C8: with one thread calling push and pop, a pop that is about to return a
\* value returns the top of the reference LIFO initialised to [seed], and a pop
\* returns None only when the reference LIFO is empty; the lone pop never takes
\* the chaining path and nothing undefined happens.
C8_SeqLifo ==
    /\ ub = {} /\ ~crashed
    /\ \A t \in SThreadSet :
          /\ ~InChain(t)
          /\ ReturnsSome(t) => sref # <<>> /\ sval[t] = sref[Len(sref)]
          /\ spc[t] = "pop_none" => sref = <<>>

\* C8 witness: a pop is about to return a pushed value that lies above the seed
\* and another pushed value.
C8_Witness ==
    \E t \in SThreadSet :
        /\ spc[t] = "reclaim_free"
        /\ Len(sref) = 3
        /\ sval[t] = sref[3]
        /\ Len(spopped) >= 1

PushConserved == (PushersDone /\ AllDrained) => BagOf(spopped) = BagOf(sinserted)
PushReturns == \A t \in SThreadSet : InSPush(t) ~> (spc[t] = "idle")

\* C9: threads push concurrently; every push returns (fair scheduling), and once
\* the pushers have finished and one thread has popped until None, the multiset it
\* obtained is the seed plus every pushed value.
C9_PushConservation == []PushConserved /\ PushReturns

\* C9 witness: the drainer has finished after two threads pushed all their values.
C9_Witness ==
    /\ PushersDone
    /\ AllDrained
    /\ Cardinality(Pushers) >= 2
    /\ Len(spopped) = 1 + Cardinality(Pushers) * SPushEach

\* the values returned are among the values inserted, none more often than inserted
PoppedWithinPushed ==
    /\ Len(spopped) <= Len(sinserted)
    /\ \A i \in DOMAIN spopped : \E j \in DOMAIN sinserted : spopped[i] = sinserted[j]
    /\ \A v \in Values : BagOf(spopped)[v] <= BagOf(sinserted)[v]

\* a pop invocation that has made its entry increment and not yet its decrement
PopCounted(t) ==
    \/ spc[t] \in {"pop_load", "pop_check", "pop_read", "pop_cas", "pop_take", "pop_none",
                   "reclaim", "reclaim_swap", "reclaim_dec", "reclaim_exit"}
    \/ spc[t] \in {"chain_cas", "chain_load", "chain_write"} /\ chain_from[t] = "old_head"
\* a pop invocation that has made its decrement and has not returned yet
PopUncounted(t) ==
    \/ spc[t] \in {"delete_nodes", "reclaim_free"}
    \/ spc[t] \in {"chain_cas", "chain_load", "chain_write"} /\ chain_from[t] = "claimed"

\* C10: threads drain a stack of n elements concurrently; every thread finishes
\* and together they return exactly the n elements, each once.
C10_DrainTerminates ==
    /\ <>AllDrained
    /\ [](AllDrained => BagOf(spopped) = BagOf(sinserted))

\* every thread is between two calls
SAllIdle == \A t \in SThreadSet : spc[t] \in {"idle", "done"}

\* C11: at every moment of concurrent pushes and pops the values returned are at
\* most the values inserted, none returned more often than inserted; once every
\* call has returned and the stack is empty the two multisets are equal.
C11_PoppedWithinPushed ==
    /\ PoppedWithinPushed
    /\ (SAllIdle /\ head = NULL) => BagOf(spopped) = BagOf(sinserted)

\* C12: no push or pop reads a deallocated node, and no node is deallocated
\* while it is linked in the live list.
C12_NoUseAfterFree ==
    /\ "use_after_free" \notin ub
    /\ \A a \in Reach(head, {}) : Allocated(a)

\* C13: no node is deallocated twice, and delete_nodes leaves its loop: a thread
\* is never about to deallocate again what it has deallocated.
C13_SingleFree ==
    /\ "double_free" \notin ub
    /\ \A t \in SThreadSet :
          (spc[t] = "delete_nodes" /\ nodes_to_delete[t] # NULL)
              => Allocated(nodes_to_delete[t])

\* allocated nodes that are not in the live list and not a push's unlinked new node
Unlinked ==
    {a \in Addrs : Allocated(a)} \ (Reach(head, {}) \cup {new_node[t] : t \in SThreadSet})
\* the pop of thread t has unlinked its old_head and not returned yet
HasUnlinked(t) ==
    spc[t] \in {"pop_take", "reclaim", "reclaim_swap", "reclaim_dec", "delete_nodes",
               "chain_cas", "chain_load", "chain_write", "reclaim_free", "reclaim_exit"}
\* the nodes thread t holds privately: the node it is reclaiming, the list it
\* claimed, the list it is chaining
HeldBy(t) ==
    (IF HasUnlinked(t) THEN {old_head[t]} ELSE {})
        \cup Reach(nodes_to_delete[t], {}) \cup Reach(chain_list[t], {})

\* C14: every node unlinked and not yet deallocated is being reclaimed by the
\* pop that unlinked it, is in a list a pop claimed or is chaining, or is
\* reachable from list_to_delete.
C14_NoLeak ==
    Unlinked \subseteq
        (Reach(list_to_delete, {}) \cup UNION {HeldBy(t) : t \in SThreadSet})

\* C15: drop never reads a node it has deallocated and deallocates no node
\* twice; when it has finished, no node of the live list or of the pending list
\* is still allocated.
C15_Teardown ==
    /\ "teardown_read_freed" \notin ub
    /\ "teardown_double_free" \notin ub
    /\ (\E t \in SThreadSet : spc[t] = "dropped") =>
          \A a \in Reach(head, {}) \cup Reach(list_to_delete, {}) : ~Allocated(a)

\* C16: every pop that has been called returns (fair scheduling), and after a
\* failed CAS on head the pop goes round its loop with old_head re-read from
\* head.
C16_PopCompletes ==
    /\ \A t \in SThreadSet : (spc[t] = "pop_load") ~> (spc[t] \in {"idle", "done"})
    /\ [][\A t \in SThreadSet :
            (spc[t] = "pop_cas" /\ spc'[t] = "pop_check") => old_head'[t] = head']_vars

\* C17: when the single thread's pop finds the stack empty, every inserted
\* value has been returned exactly once, the live list and the pending list are
\* empty and no node is left allocated.
C17_DrainedOwnership ==
    \A t \in SThreadSet :
        spc[t] = "pop_none" =>
            /\ BagOf(spopped) = BagOf(sinserted)
            /\ head = NULL /\ list_to_delete = NULL
            /\ \A a \in Addrs : ~Allocated(a)

\* C17 witness: the pop finds the stack empty after the seed and two pushed
\* values were returned.
C17_Witness ==
    \E t \in SThreadSet :
        /\ spc[t] = "pop_none"
        /\ Len(spopped) = 3
        /\ \E a \in Addrs : heap[a] = "freed"

\* C18: threads_in_pop is the number of pop invocations between their entry
\* increment and their one decrement; it is never negative and it is 0 when no
\* pop is in progress.
C18_InFlightCounter ==
    /\ threads_in_pop = Cardinality({t \in SThreadSet : PopCounted(t)})
    /\ threads_in_pop >= 0
    /\ (\A t \in SThreadSet : ~PopCounted(t) /\ ~PopUncounted(t)) => threads_in_pop = 0

\* C18 witness: two pops are in flight, one of them on the chaining path.
C18_Witness ==
    /\ threads_in_pop = 2
    /\ \E t \in SThreadSet : spc[t] = "reclaim_exit"

\* C19: the nodes reachable from head and the nodes reachable from
\* list_to_delete are disjoint, and none of them is deallocated.
C19_NodePartition ==
    /\ Reach(head, {}) \cap Reach(list_to_delete, {}) = {}
    /\ \A a \in Reach(head, {}) \cup Reach(list_to_delete, {}) : Allocated(a)

\* C20: pop and chain_pending_nodes never read through a null pointer.
C20_NoNullDeref == "null_deref" \notin ub /\ ~crashed

====
